---- MODULE Spec2Model ----
(***************************************************************************)
(* Model of flaskscaffold.py: the Flask project scaffolder.                *)
(*                                                                         *)
(* A run of main() parses the command line, resolves and creates the       *)
(* project root, lets make_tree() issue its fixed list of write() calls,   *)
(* optionally calls make_venv() and init_git(), and prints the summary.    *)
(* The file system is the only state that survives a run.                  *)
(***************************************************************************)
EXTENDS Integers, Sequences, FiniteSets, TLC

VARIABLES
    disk,     \* root directory |-> tree below it (files with content, dirs)
    quota,    \* working directory |-> runs still to be started from it
    hist,     \* root directory |-> the runs made against it, oldest first
    pc,       \* position of the running process in main()
    cwd,      \* working directory of the running process
    args,     \* the argparse namespace of the running process
    idx,      \* index of the next statement of make_tree's write section
    out,      \* what the process printed, in order
    calls,    \* the subprocess.run calls the process issued, in order
    before    \* tree of the process's root at the moment the process started

vars == <<disk, quota, hist, pc, cwd, args, idx, out, calls, before>>

----------------------------------------------------------------------------
(* Bounds of the model. *)

\* runs started against one working directory in the multi-run specification
MaxRuns == 2
\* number of generated files that exist before the run, at most
MaxPre == 1

Cwds == {1, 2}
Names == {"Demo", "Shop"}
\* --venv absent, given as the empty string, given as a path
NoVenv == <<>>
VenvChoices == {NoVenv, <<"">>, <<".venv">>}

----------------------------------------------------------------------------
(* Paths are sequences of components relative to the project root;         *)
(* <<>> is the root itself.                                                *)

Parent(p) == SubSeq(p, 1, Len(p) - 1)

Ancestors(p) == {SubSeq(p, 1, k) : k \in 0..(Len(p) - 1)}

EmptyTree == [files |-> <<>>, dirs |-> {}]

\* Path.mkdir(parents=True, exist_ok=True)
mkdir(tree, d) == [tree EXCEPT !.dirs = @ \cup {d} \cup Ancestors(d)]

\* Path.exists()
exists(tree, p) == p \in DOMAIN tree.files \/ p \in tree.dirs

\* Path.write_text(content): create or replace the file
write_text(tree, p, content) ==
    [tree EXCEPT !.files = (p :> content) @@ @]

\* write that replaces an existing file whatever overwrite says
write_replacing(tree, path, content, overwrite) ==
    write_text(mkdir(tree, Parent(path)), path, content)

\* write(path, content, *, overwrite=False)
write(tree, path, content, overwrite) ==
    IF exists(tree, path) /\ ~overwrite
    THEN tree
    ELSE write_text(mkdir(tree, Parent(path)), path, content)

----------------------------------------------------------------------------
(* The templates of make_tree.  A content is a sequence of lines, a line   *)
(* a sequence of text fragments; only the lines that tell the templates    *)
(* apart are kept.                                                         *)

ApiImport == <<"from .api import api_bp">>
ApiRegister == <<"app.register_blueprint(api_bp, url_prefix='/api')">>

\* the interpolation with its condition lost
wiring_unconditional(with_api) == <<ApiImport, ApiRegister>>

\* the expression interpolated into init_py
wiring(with_api) ==
    IF with_api THEN <<ApiImport, ApiRegister>> ELSE << <<"">> >>

init_py(with_api) ==
    << <<"def create_app():">>, <<"app.register_blueprint(main_bp)">> >>
    \o wiring(with_api)
    \o << <<"return app">> >>

extensions_py == << <<"db = SQLAlchemy()">> >>
routes_py == << <<"@main_bp.route('/')">> >>
models_py == << <<"class Example(db.Model):">> >>
forms_py == << <<"# Optional WTForms go here (only if you use Flask-WTF)">> >>
base_html == << <<"<!doctype html>">> >>
index_html == << <<"{% extends 'base.html' %}">> >>
css_main == << <<"body{font-family:system-ui}">> >>
js_main == << <<"console.log('Flask scaffold ready');">> >>
api_init == << <<"@api_bp.get('/health')">> >>
wsgi_py == << <<"app = create_app()">> >>
run_py == << <<"app = create_app()">>, <<"app.run(debug=True)">> >>
config_py == << <<"class Config:">> >>
reqs == << <<"Flask>=3.0">> >>
test_basic == << <<"def test_index():">> >>
readme(name) == << <<"# ", name>>, <<"Minimal Flask app scaffold.">> >>
gitignore == << <<"__pycache__/">> >>

pkg == "app"

ApiInitPath == <<pkg, "api", "__init__.py">>
AppInitPath == <<pkg, "__init__.py">>
MigrationsDir == <<"migrations">>

W(path, content) == [op |-> "write", path |-> path, content |-> content]
D(path) == [op |-> "mkdir", path |-> path, content |-> <<>>]

\* the api entry written without looking at with_api
api_entries_unconditional(with_api) == << W(ApiInitPath, api_init) >>

\* "if with_api: write(root / pkg / "api" / "__init__.py", api_init)"
api_entries(with_api) ==
    IF with_api THEN << W(ApiInitPath, api_init) >> ELSE <<>>

\* the "write structure" section of make_tree, statement by statement
make_tree(name, with_api) ==
    << W(<<"requirements.txt">>, reqs),
       W(<<"README.md">>, readme(name)),
       W(<<".gitignore">>, gitignore),
       W(<<"run.py">>, run_py),
       W(<<"wsgi.py">>, wsgi_py),
       W(<<"config.py">>, config_py),
       W(AppInitPath, init_py(with_api)),
       W(<<pkg, "extensions.py">>, extensions_py),
       W(<<pkg, "routes.py">>, routes_py),
       W(<<pkg, "models.py">>, models_py),
       W(<<pkg, "forms.py">>, forms_py),
       W(<<pkg, "templates", "base.html">>, base_html),
       W(<<pkg, "templates", "index.html">>, index_html),
       W(<<pkg, "static", "css", "main.css">>, css_main),
       W(<<pkg, "static", "js", "main.js">>, js_main) >>
    \o api_entries(with_api)
    \o << D(MigrationsDir),
          W(<<"tests", "test_basic.py">>, test_basic) >>

----------------------------------------------------------------------------
(* Command line and process state. *)

ArgSpace ==
    [name : Names, with_api : BOOLEAN, init_git : BOOLEAN,
     venv : VenvChoices, force : BOOLEAN]

NoArgs ==
    [name |-> "Demo", with_api |-> FALSE, init_git |-> FALSE,
     venv |-> NoVenv, force |-> FALSE]

\* truth value of args.venv: None and the empty string are false
venv_given(a) == a.venv # NoVenv /\ a.venv # <<"">>

\* Path(args.name).resolve(): the name relative to the working directory
resolve(c, name) == <<c, name>>

Roots == {resolve(c, n) : c \in Cwds, n \in Names}

root == resolve(cwd, args.name)

Tree == disk[root]

Terminated == pc \in {"idle", "done", "fatal"}

\* main handing make_tree the wrong flag
main_make_tree_wrong_flag(a) == make_tree(a.name, a.init_git)

\* main: make_tree(root, args.name, with_api=args.with_api)
main_make_tree(a) == make_tree(a.name, a.with_api)

Ops == main_make_tree(args)

VenvCmd == "python -m venv"
GitOps == <<"git init", "git add -A", "git commit">>
GitPcs == <<"git_init", "git_add", "git_commit">>

VenvWarning == "[warn] venv creation failed"
GitWarning == "[warn] git init failed"
GitSuccess == "Initialized git repository."

\* main after make_venv returned (or was skipped): "if args.init_git"
after_venv(a) == IF a.init_git THEN GitPcs[1] ELSE "summary"

\* main calling make_venv without testing args.venv
after_tree_unconditional(a) == "make_venv"

\* main after make_tree returned: "if args.venv"
after_tree(a) == IF venv_given(a) THEN "make_venv" ELSE after_venv(a)

\* main swallowing the error and carrying on
on_oserror_swallowed(a) == after_tree(a)

\* main has no handler around root.mkdir and make_tree: an OSError raised
\* there ends the process with a traceback and a non-zero exit status
on_oserror(a) == "fatal"

\* the prints that end main
summary(a) ==
    <<"Flask scaffold created", "Next steps">>
    \o (IF venv_given(a) THEN <<"activate venv">> ELSE <<>>)
    \o <<"pip install", "python run.py">>

\* make_venv without its try/except
make_venv_uncaught(a, o) == [pc |-> "fatal", out |-> o]

\* make_venv: the except branch, then back in main
make_venv_failed(a, o) ==
    [pc |-> after_venv(a), out |-> Append(o, VenvWarning)]

\* init_git: subprocess.run(..., check=True) number k returned normally
init_git_next(k, o) ==
    IF k < Len(GitOps)
    THEN [pc |-> GitPcs[k + 1], out |-> o]
    ELSE [pc |-> "summary", out |-> Append(o, GitSuccess)]

\* init_git warning about the failed command and going on to the next
init_git_carries_on(k, o) == init_git_next(k, Append(o, GitWarning))

\* init_git: subprocess.run number k raised; the except branch, then back
\* in main
init_git_failed(k, o) ==
    [pc |-> "summary", out |-> Append(o, GitWarning)]

Call(cmd, ok) == [cmd |-> cmd, ok |-> ok]

SetStatus(s) ==
    [hist EXCEPT ![root] = [@ EXCEPT ![Len(@)].status = s]]

----------------------------------------------------------------------------
(* Actions. *)

\* a process is started: ap.parse_args()
Parse(c, a) ==
    /\ Terminated
    /\ quota[c] > 0
    /\ quota' = [quota EXCEPT ![c] = @ - 1]
    /\ cwd' = c
    /\ args' = a
    /\ pc' = "mkroot"
    /\ idx' = 1
    /\ out' = <<>>
    /\ calls' = <<>>
    /\ before' = disk[resolve(c, a.name)]
    /\ hist' = [hist EXCEPT ![resolve(c, a.name)] =
                  Append(@, [with_api |-> a.with_api, force |-> a.force,
                             status |-> "running"])]
    /\ UNCHANGED disk

\* root.mkdir(parents=True, exist_ok=True), then make_tree is entered
MkRoot ==
    /\ pc = "mkroot"
    /\ disk' = [disk EXCEPT ![root] = mkdir(@, <<>>)]
    /\ pc' = "make_tree"
    /\ UNCHANGED <<quota, hist, cwd, args, idx, out, calls, before>>

\* root.mkdir raises OSError
MkRootFails ==
    /\ pc = "mkroot"
    /\ <<>> \notin Tree.dirs
    /\ pc' = on_oserror(args)
    /\ hist' = SetStatus("failed")
    /\ UNCHANGED <<disk, quota, cwd, args, idx, out, calls, before>>

\* the statement make_tree is about to execute
Op == Ops[idx]

Advance ==
    /\ idx' = idx + 1
    /\ pc' = IF idx = Len(Ops) THEN after_tree(args) ELSE pc

\* one write(...) statement of make_tree; no call site passes overwrite
WriteStep ==
    /\ pc = "make_tree"
    /\ idx <= Len(Ops)
    /\ LET op == Op
       IN  /\ op.op = "write"
           /\ disk' = [disk EXCEPT
                         ![root] = write(@, op.path, op.content, FALSE)]
    /\ Advance
    /\ UNCHANGED <<quota, hist, cwd, args, out, calls, before>>

\* (root / "migrations").mkdir(parents=True, exist_ok=True)
MkdirMigrations ==
    /\ pc = "make_tree"
    /\ idx <= Len(Ops)
    /\ LET op == Op
       IN  /\ op.op = "mkdir"
           /\ disk' = [disk EXCEPT ![root] = mkdir(@, op.path)]
    /\ Advance
    /\ UNCHANGED <<quota, hist, cwd, args, out, calls, before>>

\* what a write(...) that raises can leave behind: nothing (mkdir or open
\* failed), the parent directories, or the parent directories and a file
\* holding a strict prefix of the content (write_text failed half way)
FailedWrites(tree, path, content) ==
    LET made == mkdir(tree, Parent(path))
    IN  {tree, made}
        \cup {write_text(made, path, SubSeq(content, 1, k)) :
                 k \in 0..(Len(content) - 1)}

\* a write(...) statement raises OSError
WriteFails ==
    /\ pc = "make_tree"
    /\ idx <= Len(Ops)
    /\ LET op == Op
       IN  /\ op.op = "write"
           /\ ~exists(Tree, op.path)
           /\ \E t \in FailedWrites(Tree, op.path, op.content) :
                 disk' = [disk EXCEPT ![root] = t]
    /\ pc' = on_oserror(args)
    /\ hist' = SetStatus("failed")
    /\ UNCHANGED <<quota, cwd, args, idx, out, calls, before>>

\* the migrations mkdir raises OSError
MkdirFails ==
    /\ pc = "make_tree"
    /\ idx <= Len(Ops)
    /\ LET op == Op
       IN  /\ op.op = "mkdir"
           /\ op.path \notin Tree.dirs
    /\ pc' = on_oserror(args)
    /\ hist' = SetStatus("failed")
    /\ UNCHANGED <<disk, quota, cwd, args, idx, out, calls, before>>

\* make_venv: the subprocess returns normally
MakeVenv ==
    /\ pc = "make_venv"
    /\ calls' = Append(calls, Call(VenvCmd, TRUE))
    /\ out' = Append(out, "Created virtualenv")
    /\ pc' = after_venv(args)
    /\ UNCHANGED <<disk, quota, hist, cwd, args, idx, before>>

\* make_venv: the subprocess cannot be started or exits non-zero
MakeVenvFails ==
    /\ pc = "make_venv"
    /\ calls' = Append(calls, Call(VenvCmd, FALSE))
    /\ out' = make_venv_failed(args, out).out
    /\ pc' = make_venv_failed(args, out).pc
    /\ UNCHANGED <<disk, quota, hist, cwd, args, idx, before>>

\* init_git: the k-th git command returns normally
GitCall(k) ==
    /\ pc = GitPcs[k]
    /\ calls' = Append(calls, Call(GitOps[k], TRUE))
    /\ out' = init_git_next(k, out).out
    /\ pc' = init_git_next(k, out).pc
    /\ UNCHANGED <<disk, quota, hist, cwd, args, idx, before>>

\* init_git: the k-th git command cannot be started or exits non-zero
GitCallFails(k) ==
    /\ pc = GitPcs[k]
    /\ calls' = Append(calls, Call(GitOps[k], FALSE))
    /\ out' = init_git_failed(k, out).out
    /\ pc' = init_git_failed(k, out).pc
    /\ UNCHANGED <<disk, quota, hist, cwd, args, idx, before>>

\* the closing prints of main; the process ends normally
Summary ==
    /\ pc = "summary"
    /\ out' = out \o summary(args)
    /\ pc' = "done"
    /\ hist' = SetStatus("ok")
    /\ UNCHANGED <<disk, quota, cwd, args, idx, calls, before>>

\* the steps of a process on a file system that takes every write
NextOk ==
    \/ \E c \in Cwds, a \in ArgSpace : Parse(c, a)
    \/ MkRoot
    \/ WriteStep
    \/ MkdirMigrations
    \/ MakeVenv
    \/ MakeVenvFails
    \/ \E k \in 1..Len(GitOps) : GitCall(k)
    \/ \E k \in 1..Len(GitOps) : GitCallFails(k)
    \/ Summary

Next ==
    \/ NextOk
    \/ MkRootFails
    \/ WriteFails
    \/ MkdirFails

----------------------------------------------------------------------------
(* Initial states. *)

Sentinel == << <<"SENTINEL">> >>

WritePaths(ops) ==
    {ops[i].path : i \in {j \in 1..Len(ops) : ops[j].op = "write"}}

\* a tree in which the files ps exist with sentinel content
PreTree(ps) ==
    [files |-> [p \in ps |-> Sentinel],
     dirs |-> UNION {Ancestors(p) : p \in ps}]

RECURSIVE SubsetsUpTo(_, _)
SubsetsUpTo(S, n) ==
    IF n = 0 THEN {{}}
    ELSE LET smaller == SubsetsUpTo(S, n - 1)
         IN  smaller \cup {s \cup {x} : s \in smaller, x \in S}

PreRoot == resolve(1, "Demo")

InitProcess ==
    /\ hist = [r \in Roots |-> <<>>]
    /\ pc = "idle"
    /\ cwd = 1
    /\ args = NoArgs
    /\ idx = 1
    /\ out = <<>>
    /\ calls = <<>>
    /\ before = EmptyTree

\* one run, against a directory that may hold up to MaxPre generated files
Init ==
    /\ \E ps \in SubsetsUpTo(WritePaths(make_tree("Demo", TRUE)), MaxPre) :
          disk = [r \in Roots |-> IF r = PreRoot THEN PreTree(ps)
                                  ELSE EmptyTree]
    /\ quota = [c \in Cwds |-> IF c = 1 THEN 1 ELSE 0]
    /\ InitProcess

\* MaxRuns runs in a row from one working directory, nothing on disk
InitRuns ==
    /\ disk = [r \in Roots |-> EmptyTree]
    /\ quota = [c \in Cwds |-> IF c = 1 THEN MaxRuns ELSE 0]
    /\ InitProcess

\* one run from each working directory, nothing on disk
InitTwin ==
    /\ disk = [r \in Roots |-> EmptyTree]
    /\ quota = [c \in Cwds |-> 1]
    /\ InitProcess

Spec == Init /\ [][Next]_vars

SpecRuns == InitRuns /\ [][NextOk]_vars

SpecTwin == InitTwin /\ [][NextOk]_vars

----------------------------------------------------------------------------
(* Vocabulary of the properties. *)

Files == Tree.files

\* the write statements of the run's make_tree
Writes == SelectSeq(Ops, LAMBDA o : o.op = "write")

Holds(tree, p, content) ==
    p \in DOMAIN tree.files /\ tree.files[p] = content

HasApiWiring(tree) ==
    /\ AppInitPath \in DOMAIN tree.files
    /\ \E i \in 1..Len(tree.files[AppInitPath]) :
          tree.files[AppInitPath][i] = ApiImport
    /\ \E i \in 1..Len(tree.files[AppInitPath]) :
          tree.files[AppInitPath][i] = ApiRegister

HasApiPackage(tree) == ApiInitPath \in DOMAIN tree.files

\* the run has left make_tree normally
TreeEmitted ==
    pc \in {"make_venv", "summary", "done"} \cup {GitPcs[k] : k \in 1..3}

Fresh == before.files = <<>> /\ before.dirs \subseteq {<<>>}

Status == hist[root][Len(hist[root])].status

IsPrefix(s, t) == Len(s) <= Len(t) /\ SubSeq(t, 1, Len(s)) = s

SummaryPrinted ==
    /\ Len(out) >= Len(summary(args))
    /\ SubSeq(out, Len(out) - Len(summary(args)) + 1, Len(out)) = summary(args)

Count(seq, x) == Cardinality({i \in 1..Len(seq) : seq[i] = x})

----------------------------------------------------------------------------
(* C1: with --force, every generated file that existed before the run with *)
(* a content other than the standard one holds the standard content when   *)
(* the run has completed.                                                  *)
C1_ForceReplaces ==
    (pc = "done" /\ args.force) =>
        LET ws == Writes
        IN  \A i \in 1..Len(ws) :
                ( /\ ws[i].path \in DOMAIN before.files
                  /\ before.files[ws[i].path] # ws[i].content )
                => Holds(Tree, ws[i].path, ws[i].content)

(* C2: without --force, a completed run leaves every file that existed     *)
(* before it with the content it had, and every generated file that was    *)
(* missing exists with its standard content.                               *)
C2_KeepsExistingCreatesMissing ==
    (pc = "done" /\ ~args.force) =>
        /\ \A p \in DOMAIN before.files : Holds(Tree, p, before.files[p])
        /\ LET ws == Writes
           IN  \A i \in 1..Len(ws) :
                   ws[i].path \notin DOMAIN before.files
                   => Holds(Tree, ws[i].path, ws[i].content)

C2_Witness ==
    /\ pc = "done"
    /\ ~args.force
    /\ \E p \in DOMAIN before.files :
          p \in WritePaths(Ops) /\ before.files[p] = Sentinel
    /\ WritePaths(Ops) \ DOMAIN before.files # {}

(* C3: on a fresh directory, a run without --with-api never creates        *)
(* app/api and completes with an app/__init__.py free of the api wiring;   *)
(* a run with --with-api completes with app/api/__init__.py present and    *)
(* the import and the registration of the api blueprint in                 *)
(* app/__init__.py.                                                        *)
C3_ApiFollowsFlag ==
    (pc # "idle" /\ Fresh) =>
        /\ ~args.with_api =>
              /\ <<pkg, "api">> \notin Tree.dirs
              /\ ~HasApiPackage(Tree)
              /\ ~HasApiWiring(Tree)
        /\ (args.with_api /\ pc = "done") =>
              /\ Holds(Tree, ApiInitPath, api_init)
              /\ HasApiWiring(Tree)
        /\ pc = "done" => AppInitPath \in DOMAIN Files

C3_Witness ==
    /\ pc = "done"
    /\ Fresh
    /\ args.with_api
    /\ HasApiPackage(Tree)

(* C4: a failure of make_venv or of a git command is caught: the process   *)
(* is never in the fatal state afterwards, the warning of the failed step  *)
(* is printed, the git step is still entered after a failed venv step when *)
(* --init-git was given, and a process that has ended has printed the      *)
(* summary last.                                                           *)
VenvFailed == Call(VenvCmd, FALSE) \in {calls[i] : i \in 1..Len(calls)}
GitFailed == \E i \in 1..Len(calls) : calls[i].cmd # VenvCmd /\ ~calls[i].ok

C4_BestEffortNeverFatal ==
    /\ calls # <<>> => pc \in ({GitPcs[k] : k \in 1..3} \cup {"summary", "done"})
    /\ VenvFailed => Count(out, VenvWarning) = 1
    /\ GitFailed => Count(out, GitWarning) = 1
    /\ (VenvFailed /\ args.init_git /\ pc \in {"summary", "done"}) =>
          \E i \in 1..Len(calls) : calls[i].cmd = GitOps[1]
    /\ pc = "done" => SummaryPrinted

C4_Witness ==
    /\ pc = "done"
    /\ VenvFailed
    /\ GitFailed
    /\ SummaryPrinted

(* C5: once a write or a mkdir of the tree emission has failed the process *)
(* is in the fatal state: no subprocess was started, nothing was printed,  *)
(* every entry before the failing one is on disk, and no entry after it    *)
(* was touched.                                                            *)
C5_EmissionFailureIsFatal ==
    (pc # "idle" /\ Status = "failed") =>
        /\ pc = "fatal"
        /\ calls = <<>>
        /\ out = <<>>
        /\ LET ops == Ops
           IN  \A i \in 1..Len(ops) :
                 LET p == ops[i].path
                 IN  /\ (i < idx /\ ops[i].op = "write") =>
                           Holds(Tree, p, IF p \in DOMAIN before.files
                                          THEN before.files[p]
                                          ELSE ops[i].content)
                     /\ (i < idx /\ ops[i].op = "mkdir") => p \in Tree.dirs
                     /\ (i > idx /\ ops[i].op = "write") =>
                           (p \in DOMAIN Files <=> p \in DOMAIN before.files)
                     /\ (i > idx /\ ops[i].op = "mkdir") =>
                           (p \in Tree.dirs <=> p \in before.dirs)

C5_Witness ==
    /\ pc = "fatal"
    /\ Status = "failed"
    /\ idx > 7
    /\ idx < Len(Ops)
    /\ Holds(Tree, AppInitPath, init_py(args.with_api))

(* C6: on a fresh directory the tree a run leaves behind consists of the   *)
(* sixteen listed files, the directories that hold them and the empty      *)
(* migrations directory; with --with-api, of these and                     *)
(* app/api/__init__.py.                                                    *)
ListedFiles ==
    { <<"requirements.txt">>, <<"README.md">>, <<".gitignore">>,
      <<"run.py">>, <<"wsgi.py">>, <<"config.py">>,
      <<"app", "__init__.py">>, <<"app", "extensions.py">>,
      <<"app", "routes.py">>, <<"app", "models.py">>, <<"app", "forms.py">>,
      <<"app", "templates", "base.html">>,
      <<"app", "templates", "index.html">>,
      <<"app", "static", "css", "main.css">>,
      <<"app", "static", "js", "main.js">>,
      <<"tests", "test_basic.py">> }

ListedDirs ==
    { <<>>, <<"app">>, <<"app", "templates">>, <<"app", "static">>,
      <<"app", "static", "css">>, <<"app", "static", "js">>,
      <<"tests">>, <<"migrations">> }

C6_ExactTree ==
    (TreeEmitted /\ Fresh) =>
        IF args.with_api
        THEN /\ DOMAIN Files = ListedFiles \cup {<<"app", "api", "__init__.py">>}
             /\ Tree.dirs = ListedDirs \cup {<<"app", "api">>}
        ELSE /\ DOMAIN Files = ListedFiles
             /\ Tree.dirs = ListedDirs

C6_Witness ==
    /\ pc = "done"
    /\ Fresh
    /\ ~args.with_api
    /\ ~args.force
    /\ <<"migrations">> \in Tree.dirs
    /\ Cardinality(DOMAIN Files) = 16

(* C7: two completed runs with the same name, with_api and force, each the *)
(* only run against its directory and each started on an empty directory,  *)
(* leave identical trees.                                                  *)
OnlyRunCompleted(r) == Len(hist[r]) = 1 /\ hist[r][1].status = "ok"

C7_Deterministic ==
    Terminated =>
        \A r1, r2 \in Roots :
            ( /\ OnlyRunCompleted(r1)
              /\ OnlyRunCompleted(r2)
              /\ r1[2] = r2[2]
              /\ hist[r1][1].with_api = hist[r2][1].with_api
              /\ hist[r1][1].force = hist[r2][1].force )
            => disk[r1] = disk[r2]

C7_Witness ==
    /\ pc = "done"
    /\ \E r1, r2 \in Roots :
          /\ r1 # r2
          /\ r1[2] = r2[2]
          /\ OnlyRunCompleted(r1)
          /\ OnlyRunCompleted(r2)
          /\ hist[r1][1].with_api = hist[r2][1].with_api
          /\ hist[r1][1].force = hist[r2][1].force
          /\ disk[r1].files # <<>>

(* C8: within a run the phases follow each other in the order parse, emit  *)
(* tree, bootstrap environment, init repo, print summary and none is       *)
(* entered again; the bootstrap and the git phase are entered only with    *)
(* --venv and --init-git, only after the last statement of make_tree, the  *)
(* git phase only after the venv call when --venv was given, and the       *)
(* summary is what the process prints last.                                *)
Rank(p) ==
    CASE p = "idle" -> 0
      [] p = "mkroot" -> 1
      [] p = "make_tree" -> 2
      [] p = "make_venv" -> 3
      [] p \in {GitPcs[k] : k \in 1..3} -> 4
      [] p = "summary" -> 5
      [] p \in {"done", "fatal"} -> 6

VenvCalled == \E i \in 1..Len(calls) : calls[i].cmd = VenvCmd
GitCalled == \E i \in 1..Len(calls) : calls[i].cmd = GitOps[1]

PhaseEntered ==
    /\ pc = "make_tree" => calls = <<>> /\ out = <<>>
    /\ pc = "make_venv" =>
          venv_given(args) /\ idx > Len(Ops) /\ calls = <<>>
    /\ pc = GitPcs[1] =>
          /\ args.init_git
          /\ idx > Len(Ops)
          /\ venv_given(args) <=> VenvCalled
          /\ ~GitCalled
    /\ pc \in {"summary", "done"} =>
          /\ idx > Len(Ops)
          /\ venv_given(args) <=> VenvCalled
          /\ args.init_git <=> GitCalled
    /\ pc = "summary" => Count(out, "Flask scaffold created") = 0
    /\ pc = "done" => SummaryPrinted /\ Count(out, "Flask scaffold created") = 1

C8_LinearPhases ==
    [][ /\ PhaseEntered'
        /\ (pc' # pc /\ pc' # "mkroot") => Rank(pc') >= Rank(pc)
        /\ (pc' # pc /\ Rank(pc') = Rank(pc)) => Rank(pc) = 4
        /\ pc' = "mkroot" => Terminated ]_vars

C8_Witness ==
    /\ pc = "done"
    /\ venv_given(args)
    /\ args.init_git
    /\ Len(calls) = 4

(* C9: init_git issues git init, git add, git commit in this order, each   *)
(* only after the one before it succeeded; a failed command is the last    *)
(* one issued and yields exactly one warning; the success message is       *)
(* printed exactly when all three succeeded.                               *)
GitCalls == SelectSeq(calls, LAMBDA c : c.cmd # VenvCmd)

C9_GitSequence ==
    /\ IsPrefix([i \in 1..Len(GitCalls) |-> GitCalls[i].cmd], GitOps)
    /\ \A i \in 1..(Len(GitCalls) - 1) : GitCalls[i].ok
    /\ Count(out, GitWarning) = (IF GitFailed THEN 1 ELSE 0)
    /\ Count(out, GitSuccess) =
          (IF Len(GitCalls) = 3 /\ ~GitFailed THEN 1 ELSE 0)
    /\ (pc \in {"summary", "done"} /\ args.init_git) =>
          (GitFailed \/ Len(GitCalls) = 3)

C9_Witness ==
    /\ pc = "done"
    /\ Len(GitCalls) = 2
    /\ GitCalls[1].ok
    /\ ~GitCalls[2].ok

(* C10 as stated: after any sequence of completed runs against a           *)
(* directory that was empty at first, app/api/__init__.py exists only if   *)
(* app/__init__.py contains the api wiring.                                *)
AllCompleted(r) == \A i \in 1..Len(hist[r]) : hist[r][i].status = "ok"

NoApiAfterPlain(r) ==
    \A i, j \in 1..Len(hist[r]) :
        i < j => ~(~hist[r][i].with_api /\ hist[r][j].with_api)

====
